---- MODULE Spec2Model ----
(***************************************************************************)
(* A model of the language detector of lingua-rs (src/src/detector.rs,     *)
(* src/src/alphabet.rs).                                                   *)
(*                                                                         *)
(* A text is a sequence of characters, a character is a string naming one  *)
(* Unicode scalar value.  The language catalog, the script tables, the     *)
(* regular expressions of crate::constant and the n-gram types live in     *)
(* files of the crate that are not part of src/; they are modelled on a    *)
(* small sub-catalog (four languages, four alphabets, twelve characters)   *)
(* that keeps every case the detector distinguishes.                       *)
(*                                                                         *)
(* f64 scores are modelled exactly, as rationals: a relative frequency is  *)
(* a dyadic fraction <<n, d>>, its natural logarithm an integer number of  *)
(* units of ln 2, a summed-up score and a confidence value a reduced       *)
(* fraction [num, den].  The unit cancels in every quotient and sign test  *)
(* the detector makes.                                                     *)
(***************************************************************************)
EXTENDS Integers, Sequences, FiniteSets, TLC

VARIABLES
    detector,   \* the LanguageDetector the calls are made on (its fields)
    models,     \* the content of the n-gram model stores: <<language, ngram>> -> frequency
    op,         \* the operation that was called, "none" before any call
    input,      \* the argument of the call: a text, or a list of words
    out,        \* what the call computed and returned
    char_sets,  \* the static Lazy<CharSet> of every alphabet
    callers     \* the threads that call Alphabet::matches, each with its position

vars == <<detector, models, op, input, out, char_sets, callers>>

(***************************************************************************)
(* Bounds of the model.                                                    *)
(***************************************************************************)
\* longest text given to detect_language_of
MaxTextLen == 2
\* longest text given to clean_up_input_text
MaxCleanUpLen == 3
\* longest space-separated text whose words are given to the rule engine
MaxRuleTextLen == 3
\* longest text on which detect_language_of is called twice
MaxRepeatedTextLen == 3

(***************************************************************************)
(* Characters.                                                             *)
(***************************************************************************)
\* a, b, sz (U+00DF), ue (U+00FC): lowercase Latin letters; A: an uppercase one;
\* zhong (U+4E2D): a Han ideograph; no (U+306E): a Hiragana syllable
Letters == {"a", "b", "A", "sz", "ue", "zhong", "no"}
\* ae (U+00E4): one more lowercase Latin letter, met only in the words handed to
\* filter_languages_by_rules directly
HintLetters == {"ae"}
PunctuationChars == {"."}
NumberChars == {"1"}
WhitespaceChars == {" ", "\t"}
\* "$" is a symbol (category Sc): no letter, no punctuation, no number, no whitespace
Chars == Letters \cup PunctuationChars \cup NumberChars \cup WhitespaceChars \cup {"$"}

TextsUpTo(n) == UNION {[1..k -> Chars] : k \in 0..n}

(***************************************************************************)
(* Strings.                                                                *)
(***************************************************************************)
RECURSIVE Filter(_, _)
\* the characters of s that are not in the set removed: Regex::replace_all(s, "")
Filter(s, removed) ==
    IF s = <<>> THEN <<>>
    ELSE IF Head(s) \in removed THEN Filter(Tail(s), removed)
         ELSE <<Head(s)>> \o Filter(Tail(s), removed)

RECURSIVE TrimStart(_)
TrimStart(s) ==
    IF s # <<>> /\ Head(s) \in WhitespaceChars THEN TrimStart(Tail(s)) ELSE s

RECURSIVE TrimEnd(_)
TrimEnd(s) ==
    IF s # <<>> /\ s[Len(s)] \in WhitespaceChars
    THEN TrimEnd(SubSeq(s, 1, Len(s) - 1))
    ELSE s

\* str::trim
Trim(s) == TrimEnd(TrimStart(s))

\* char::to_lowercase on the characters of the model
LowercaseChar(c) == IF c = "A" THEN "a" ELSE c

\* str::to_lowercase
ToLowercase(s) == [i \in 1..Len(s) |-> LowercaseChar(s[i])]

RECURSIVE ReplaceWhitespaceRuns(_)
\* MULTIPLE_WHITESPACE.replace_all(s, " "): every maximal run of whitespace becomes one space
ReplaceWhitespaceRuns(s) ==
    IF s = <<>> THEN <<>>
    ELSE IF Head(s) \in WhitespaceChars
         THEN <<" ">> \o ReplaceWhitespaceRuns(TrimStart(s))
         ELSE <<Head(s)>> \o ReplaceWhitespaceRuns(Tail(s))

\* NO_LETTER.is_match(s): the text is not empty and none of its characters is a letter
NoLetterIsMatch(s) == s # <<>> /\ \A i \in 1..Len(s) : s[i] \notin Letters

\* clean_up_input_text, with the trim before the removals
clean_up_input_text(text) ==
    LET trimmed == ToLowercase(Trim(text))
        without_punctuation == Filter(trimmed, PunctuationChars)
        without_numbers == Filter(without_punctuation, NumberChars)
        normalized_whitespace == ReplaceWhitespaceRuns(without_numbers)
    IN normalized_whitespace

RECURSIVE SplitOn(_, _)
\* str::split(sep): the pieces between the separators, empty pieces included
SplitOn(s, sep) ==
    IF \A i \in 1..Len(s) : s[i] # sep THEN <<s>>
    ELSE LET i == CHOOSE k \in 1..Len(s) : s[k] = sep /\ \A j \in 1..(k - 1) : s[j] # sep
         IN <<SubSeq(s, 1, i - 1)>> \o SplitOn(SubSeq(s, i + 1, Len(s)), sep)

split_text_into_words(text) ==
    IF \E i \in 1..Len(text) : text[i] = " " THEN SplitOn(text, " ") ELSE <<text>>

(***************************************************************************)
(* The language catalog and the alphabets.                                 *)
(***************************************************************************)
\* the Language enum restricted to four languages, in the order of the enum
LanguageOrder == <<"Chinese", "English", "German", "Japanese">>
Languages == {LanguageOrder[i] : i \in 1..Len(LanguageOrder)}

\* Option<Language>::None
NoLanguage == "None"

\* the position of a language in the enum: the derived PartialOrd compares these
LanguageIndex(language) == CHOOSE i \in 1..Len(LanguageOrder) : LanguageOrder[i] = language

\* the Alphabet enum restricted to four alphabets, in the order of Alphabet::iter()
AlphabetOrder == <<"Arabic", "Han", "Hiragana", "Latin">>
Alphabets == {AlphabetOrder[i] : i \in 1..Len(AlphabetOrder)}

\* the character set CharSet::from_char_class builds, restricted to Chars
AlphabetChars(alphabet) ==
    CASE alphabet = "Arabic" -> {}
      [] alphabet = "Han" -> {"zhong"}
      [] alphabet = "Hiragana" -> {"no"}
      [] alphabet = "Latin" -> {"a", "b", "A", "sz", "ue"} \cup HintLetters

\* CharSet::is_char_match
is_char_match(alphabet, ch) == ch \in AlphabetChars(alphabet)

\* the static of an alphabet once Lazy::force has run its initialiser
BuiltCharSets ==
    [alphabet \in Alphabets |->
        [state |-> "complete", characters |-> AlphabetChars(alphabet), initialisations |-> 1]]

\* no thread besides the one that makes the calls
NoCallers == <<>>

\* Alphabet::matches / CharSet::is_match: all() over the characters, true of the empty text
matches(alphabet, text) == \A i \in 1..Len(text) : is_char_match(alphabet, text[i])

\* Language::alphabets
LanguageAlphabets(language) ==
    CASE language = "Chinese" -> {"Han"}
      [] language = "English" -> {"Latin"}
      [] language = "German" -> {"Latin"}
      [] language = "Japanese" -> {"Hiragana", "Han"}

\* Language::unique_characters: the empty set stands for Option::None
UniqueCharacters(language) ==
    IF language = "German" THEN {"sz"} ELSE {}

\* JAPANESE_CHARACTER_SET: Hiragana, Katakana and Han
JapaneseCharacterSet == {"no", "zhong"}

\* CHARS_TO_LANGUAGES_MAPPING, the entries that name a language of the catalog
CharsToLanguagesMapping ==
    <<[characters |-> <<"ae">>, languages |-> {"German"}],
      [characters |-> <<"ue">>, languages |-> {"German"}]>>

\* Alphabet::supported_languages
supported_languages(alphabet) ==
    {language \in Languages : alphabet \in LanguageAlphabets(language)}

\* Alphabet::all_supporting_single_language, as the set of its <<alphabet, language>> entries
all_supporting_single_language ==
    {<<alphabet, language>> \in Alphabets \X Languages :
        supported_languages(alphabet) = {language}}

(***************************************************************************)
(* Detectors.                                                              *)
(***************************************************************************)
\* minimum_relative_distance, in hundredths
MinimumRelativeDistances == {0, 50}

\* a slip that looks for the alphabets with a single language among the configured ones
LanguageDetectorFromMutant(languages, minimum_relative_distance) ==
    [languages |-> languages,
     minimum_relative_distance |-> minimum_relative_distance,
     languages_with_unique_characters |->
        {it \in languages : UniqueCharacters(it) # {}},
     one_language_alphabets |->
        {entry \in Alphabets \X languages :
            {it \in languages : entry[1] \in LanguageAlphabets(it)} = {entry[2]}},
     model_languages |-> Languages]

\* LanguageDetector::from: the n-gram stores of the crate hold a model for every language
LanguageDetectorFrom(languages, minimum_relative_distance) ==
    [languages |-> languages,
     minimum_relative_distance |-> minimum_relative_distance,
     languages_with_unique_characters |->
        {it \in languages : UniqueCharacters(it) # {}},
     one_language_alphabets |->
        {entry \in all_supporting_single_language : entry[2] \in languages},
     model_languages |-> Languages]

\* the fixture detector_for_english_and_german of the tests
detector_for_english_and_german ==
    [languages |-> {"English", "German"},
     minimum_relative_distance |-> 0,
     languages_with_unique_characters |-> {},
     one_language_alphabets |-> {},
     model_languages |-> {"English", "German"}]

\* the fixture detector_for_all_languages of the tests: its five model stores are empty
detector_for_all_languages ==
    [languages |-> Languages,
     minimum_relative_distance |-> 0,
     languages_with_unique_characters |->
        {it \in Languages : UniqueCharacters(it) # {}},
     one_language_alphabets |->
        {entry \in all_supporting_single_language : entry[2] \in Languages},
     model_languages |-> {}]

\* every detector the builder or a fixture can make
Detectors ==
    {LanguageDetectorFrom(languages, distance) :
        languages \in (SUBSET Languages) \ {{}}, distance \in MinimumRelativeDistances}
    \cup {detector_for_english_and_german, detector_for_all_languages}

(***************************************************************************)
(* The rule engine.                                                        *)
(***************************************************************************)
RECURSIVE SumOver(_, _)
\* the sum of f[x] over the elements x of a finite set
SumOver(f, set) ==
    IF set = {} THEN 0
    ELSE LET x == CHOOSE y \in set : TRUE IN f[x] + SumOver(f, set \ {x})

\* what one character of a word adds to word_language_counts, per language
CharacterCredits(self, character) ==
    LET char_str == <<character>>
        is_match == \E entry \in self.one_language_alphabets : matches(entry[1], char_str)
    IN [language \in Languages |->
          IF is_match
          THEN Cardinality({entry \in self.one_language_alphabets :
                                entry[2] = language /\ matches(entry[1], char_str)})
          ELSE IF matches("Han", char_str)
               THEN (IF language = "Chinese" THEN 1 ELSE 0)
          ELSE IF character \in JapaneseCharacterSet
               THEN (IF language = "Japanese" THEN 1 ELSE 0)
          \* Cyrillic and Devanagari have no character in the model
          ELSE IF matches("Latin", char_str)
               THEN (IF language \in self.languages_with_unique_characters
                        /\ character \in UniqueCharacters(language) THEN 1 ELSE 0)
          ELSE 0]

\* word_language_counts after the loop over the characters of one word; 0 is an absent key
WordLanguageCounts(self, word) ==
    [language \in Languages |->
        SumOver([i \in 1..Len(word) |-> CharacterCredits(self, word[i])[language]],
                1..Len(word))]

\* a slip that inverts the test of the configured languages
SoleLanguageMutant(self, language) ==
    IF language \notin self.languages THEN language ELSE NoLanguage

\* the key credited for a word that counted one language: the language if it is
\* configured, None otherwise
SoleLanguage(self, language) ==
    IF language \in self.languages THEN language ELSE NoLanguage

\* a slip that leaves out the comparison of the two highest counts
MostFrequentCountedMutant(self, word_language_counts, counted) ==
    LET most_frequent_language ==
            CHOOSE it \in counted : \A other \in counted :
                word_language_counts[other] <= word_language_counts[it]
    IN IF most_frequent_language \in self.languages
       THEN most_frequent_language
       ELSE NoLanguage

\* the key credited for a word that counted several languages, not both Chinese and
\* Japanese: the first of the counts sorted in descending order, if it is above the
\* second and its language is configured
MostFrequentCounted(self, word_language_counts, counted) ==
    LET most_frequent_language ==
            CHOOSE it \in counted : \A other \in counted :
                word_language_counts[other] <= word_language_counts[it]
        first_count == word_language_counts[most_frequent_language]
        second_count ==
            CHOOSE c \in {word_language_counts[it] : it \in counted \ {most_frequent_language}} :
                \A it \in counted \ {most_frequent_language} : word_language_counts[it] <= c
    IN IF first_count > second_count /\ most_frequent_language \in self.languages
       THEN most_frequent_language
       ELSE NoLanguage

\* the key a word adds one to in total_language_counts
WordVerdict(self, word) ==
    LET word_language_counts == WordLanguageCounts(self, word)
        counted == {language \in Languages : word_language_counts[language] > 0}
    IN IF counted = {} THEN NoLanguage
       ELSE IF Cardinality(counted) = 1
       THEN SoleLanguage(self, CHOOSE it \in counted : TRUE)
       ELSE IF "Chinese" \in counted /\ "Japanese" \in counted
       THEN "Japanese"
       ELSE MostFrequentCounted(self, word_language_counts, counted)

\* total_language_counts after the loop over the words; 0 is an absent key
TotalLanguageCounts(self, words) ==
    [key \in Languages \cup {NoLanguage} |->
        Cardinality({i \in 1..Len(words) : WordVerdict(self, words[i]) = key})]

\* a slip that removes the None key at half of the words as well
BelowHalfWordCountMutant(unknown_language_count, word_count) ==
    2 * unknown_language_count <= word_count

\* unknown_language_count < half_word_count, with half_word_count = len * 0.5
BelowHalfWordCount(unknown_language_count, word_count) ==
    2 * unknown_language_count < word_count

detect_language_with_rules(self, words) ==
    LET total_language_counts == TotalLanguageCounts(self, words)
        unknown_language_count == total_language_counts[NoLanguage]
        remove_none == BelowHalfWordCount(unknown_language_count, Len(words))
        keys == {key \in Languages \cup {NoLanguage} :
                    total_language_counts[key] > 0 /\ ~(remove_none /\ key = NoLanguage)}
    IN IF keys = {} THEN NoLanguage
       ELSE IF Cardinality(keys) = 1 THEN CHOOSE key \in keys : TRUE
       ELSE LET most_frequent_language ==
                    CHOOSE it \in keys : \A other \in keys :
                        total_language_counts[other] <= total_language_counts[it]
                first_count == total_language_counts[most_frequent_language]
                second_count ==
                    CHOOSE c \in {total_language_counts[it] : it \in keys \ {most_frequent_language}} :
                        \A it \in keys \ {most_frequent_language} : total_language_counts[it] <= c
            IN IF first_count = second_count THEN NoLanguage ELSE most_frequent_language

\* the alphabet a word adds one to in detected_alphabets: the first in Alphabet::iter()
\* that matches it, "" when none does
FirstMatchingAlphabet(word) ==
    IF \E i \in 1..Len(AlphabetOrder) : matches(AlphabetOrder[i], word)
    THEN AlphabetOrder[CHOOSE i \in 1..Len(AlphabetOrder) :
            /\ matches(AlphabetOrder[i], word)
            /\ \A j \in 1..(i - 1) : ~matches(AlphabetOrder[j], word)]
    ELSE ""

\* detected_alphabets after the loop over the words; 0 is an absent key
DetectedAlphabets(words) ==
    [alphabet \in Alphabets |->
        Cardinality({i \in 1..Len(words) : FirstMatchingAlphabet(words[i]) = alphabet})]

\* The alphabets that sorted_by(count descending).next() can yield: the sort is stable
\* and runs over the iteration order of a HashMap, so any alphabet of the highest count
\* can come first.
MostFrequentAlphabets(words) ==
    LET detected_alphabets == DetectedAlphabets(words)
    IN {alphabet \in Alphabets :
          /\ detected_alphabets[alphabet] > 0
          /\ \A other \in Alphabets : detected_alphabets[other] <= detected_alphabets[alphabet]}

\* the languages a word adds one to in language_counts: those of the first entry of
\* CHARS_TO_LANGUAGES_MAPPING that shares a character with the word
WordHintLanguages(word) ==
    LET hit(i) == \E j \in 1..Len(CharsToLanguagesMapping[i].characters) :
                    \E k \in 1..Len(word) : word[k] = CharsToLanguagesMapping[i].characters[j]
    IN IF \E i \in 1..Len(CharsToLanguagesMapping) : hit(i)
       THEN CharsToLanguagesMapping[
                CHOOSE i \in 1..Len(CharsToLanguagesMapping) :
                    hit(i) /\ \A j \in 1..(i - 1) : ~hit(j)].languages
       ELSE {}

\* a slip that leaves out the break after the first entry: every entry that shares a
\* character with the word credits its languages
WordHintCreditsMutant(word, language) ==
    Cardinality({i \in 1..Len(CharsToLanguagesMapping) :
        /\ language \in CharsToLanguagesMapping[i].languages
        /\ \E j \in 1..Len(CharsToLanguagesMapping[i].characters) :
            \E k \in 1..Len(word) : word[k] = CharsToLanguagesMapping[i].characters[j]})

\* what a word adds to language_counts[language]
WordHintCredits(word, language) ==
    IF language \in WordHintLanguages(word) THEN 1 ELSE 0

\* the result when languages_subset is not empty: a plausible slip returns the subset itself
FilterBySubsetMutant(filtered_languages, languages_subset) == languages_subset

\* filtered_languages.into_iter().filter(|it| languages_subset.contains(&it))
FilterBySubset(filtered_languages, languages_subset) ==
    {it \in filtered_languages : it \in languages_subset}

\* filter_languages_by_rules; most_frequent_alphabet is the alphabet the sort put first
filter_languages_by_rules(self, words, most_frequent_alphabet) ==
    IF MostFrequentAlphabets(words) = {} THEN self.languages
    ELSE LET filtered_languages ==
                {it \in self.languages : most_frequent_alphabet \in LanguageAlphabets(it)}
             language_counts ==
                [language \in Languages |->
                    SumOver([i \in 1..Len(words) |-> WordHintCredits(words[i], language)],
                            1..Len(words))]
             \* (count as f64) >= half_word_count
             languages_subset ==
                {language \in Languages :
                    language_counts[language] > 0
                    /\ 2 * language_counts[language] >= Len(words)}
         IN IF languages_subset # {}
            THEN FilterBySubset(filtered_languages, languages_subset)
            ELSE filtered_languages

\* the alphabets the caller of filter_languages_by_rules may see chosen ("" when no
\* alphabet was detected and none is chosen)
AlphabetChoices(words) ==
    IF MostFrequentAlphabets(words) = {} THEN {""} ELSE MostFrequentAlphabets(words)

(***************************************************************************)
(* Exact arithmetic for the f64 scores.                                    *)
(***************************************************************************)
Abs(x) == IF x < 0 THEN -x ELSE x

RECURSIVE Gcd(_, _)
Gcd(a, b) == IF b = 0 THEN a ELSE Gcd(b, a % b)

\* the fraction n / d (d # 0), reduced, with a positive denominator
Rat(n, d) ==
    LET g == Gcd(Abs(n), Abs(d))
        sign == IF d < 0 THEN -1 ELSE 1
    IN [num |-> sign * (n \div g), den |-> sign * (d \div g)]

RatLess(x, y) == x.num * y.den < y.num * x.den
RatSub(x, y) == Rat(x.num * y.den - y.num * x.den, x.den * y.den)
RatDiv(x, y) == Rat(x.num * y.den, x.den * y.num)
One == Rat(1, 1)

RECURSIVE Log2(_)
\* the exponent of a power of two
Log2(n) == IF n <= 1 THEN 0 ELSE 1 + Log2(n \div 2)

\* f64::ln of a positive dyadic frequency <<n, d>>, in units of ln 2
Ln(frequency) == Log2(frequency[1]) - Log2(frequency[2])

\* f64::EPSILON is 2^-52
F64EpsilonExponent == 52

RECURSIVE DivPow2(_, _)
\* x divided by 2^e, rounded down
DivPow2(x, e) == IF e = 0 THEN x ELSE DivPow2(x \div 2, e - 1)

\* x < f64::EPSILON for a fraction x >= 0: num * 2^52 < den
LessThanEpsilon(x) == x.num <= DivPow2(x.den - 1, F64EpsilonExponent)

(***************************************************************************)
(* The n-gram models.                                                      *)
(***************************************************************************)
\* relative frequencies: 0.0 (also what an absent n-gram yields), 0.5 and 1.0
Zero == <<0, 1>>
Frequencies == {Zero, <<1, 2>>, <<1, 1>>}

\* the n-grams a training model may hold with a frequency; every other n-gram is absent
ModelNgrams == {<<"a">>, <<"b">>, <<"a", "b">>}

\* the languages whose training models hold n-grams of the model's letters
StatLanguages == {"English", "German"}

\* the orders of the n-gram models: for i in 1..6
NgramOrders == 1..5

\* TestDataLanguageModel::from(text, k).ngrams: the windows of k letters
TestDataNgrams(text, k) ==
    {SubSeq(text, i, i + k - 1) : i \in {j \in 1..(Len(text) - k + 1) :
        \A c \in j..(j + k - 1) : text[c] \in Letters}}

\* Ngram::range_of_lower_order_ngrams, as the set of the prefixes it yields
LowerOrderNgrams(ngram) == {SubSeq(ngram, 1, k) : k \in 1..Len(ngram)}

\* the entries of the model stores that detection of a cleaned text can read
ReadableSlots(self, cleaned_up_text) ==
    {<<language, ngram>> \in (self.languages \cap StatLanguages \cap self.model_languages)
                              \X ModelNgrams :
        \E k \in NgramOrders : \E window \in TestDataNgrams(cleaned_up_text, k) :
            ngram \in LowerOrderNgrams(window)}

\* the contents the model stores can have, as far as detection of the text reads them
ModelTables(self, cleaned_up_text) == [ReadableSlots(self, cleaned_up_text) -> Frequencies]

\* look_up_ngram_probability aborts: a zerogram, an n-gram longer than five, or
\* language_models.get(language).unwrap() on a store without the language
LookUpPanics(self, language, ngram) ==
    \/ Len(ngram) \notin NgramOrders
    \/ language \notin self.model_languages

\* a slip that gives an n-gram the model does not hold a frequency of its own
LookUpDefaultMutant(m, language, ngram) ==
    IF <<language, ngram>> \in DOMAIN m /\ m[<<language, ngram>>][1] > 0
    THEN m[<<language, ngram>>]
    ELSE <<1, 2>>

\* look_up_ngram_probability when it returns: get_relative_frequency of the language's model
look_up_ngram_probability(m, language, ngram) ==
    IF <<language, ngram>> \in DOMAIN m THEN m[<<language, ngram>>] ELSE Zero

IsPositive(frequency) == frequency[1] > 0

\* the order at which the descent over the lower-order n-grams of an n-gram stops:
\* the longest prefix with a positive frequency, 0 when there is none
BackOffOrder(m, language, ngram) ==
    LET positive == {k \in 1..Len(ngram) :
                        IsPositive(look_up_ngram_probability(m, language, SubSeq(ngram, 1, k)))}
    IN IF positive = {} THEN 0 ELSE CHOOSE k \in positive : \A j \in positive : j <= k

RECURSIVE PushedLogarithmsMutant(_, _, _, _)
\* a slip that leaves out the break: every positive probability of the descent is pushed
PushedLogarithmsMutant(m, language, ngram, k) ==
    IF k = 0 THEN 0
    ELSE (IF IsPositive(look_up_ngram_probability(m, language, SubSeq(ngram, 1, k)))
          THEN Ln(look_up_ngram_probability(m, language, SubSeq(ngram, 1, k)))
          ELSE 0)
         + PushedLogarithmsMutant(m, language, ngram, k - 1)

RECURSIVE PushedLogarithms(_, _, _, _)
\* the inner loop over range_of_lower_order_ngrams from the prefix of k letters down:
\* the first positive probability is pushed and the loop breaks; the value is the
\* logarithm of what was pushed for the n-gram, 0 when nothing was
PushedLogarithms(m, language, ngram, k) ==
    IF k = 0 THEN 0
    ELSE IF IsPositive(look_up_ngram_probability(m, language, SubSeq(ngram, 1, k)))
         THEN Ln(look_up_ngram_probability(m, language, SubSeq(ngram, 1, k)))
         ELSE PushedLogarithms(m, language, ngram, k - 1)

\* compute_sum_of_ngram_probabilities, in units of ln 2
compute_sum_of_ngram_probabilities(m, language, ngrams) ==
    SumOver([ngram \in ngrams |-> PushedLogarithms(m, language, ngram, Len(ngram))],
            ngrams)

\* a slip that keeps the languages with a sum of zero as well
ComputeLanguageProbabilitiesMutant(m, ngrams, filtered_languages) ==
    [language \in filtered_languages |->
        compute_sum_of_ngram_probabilities(m, language, ngrams)]

\* compute_language_probabilities: a map from the languages with a sum below zero
compute_language_probabilities(m, ngrams, filtered_languages) ==
    LET sum(language) == compute_sum_of_ngram_probabilities(m, language, ngrams)
    IN [language \in {it \in filtered_languages : sum(it) < 0} |-> sum(language)]

\* the <<language, n-gram>> look-ups compute_language_probabilities makes
ProbabilityLookUps(m, ngrams, filtered_languages) ==
    {<<language, SubSeq(ngram, 1, k)>> : <<language, ngram, k>> \in
        {<<language, ngram, k>> \in filtered_languages \X ngrams \X NgramOrders :
            k <= Len(ngram) /\ k >= BackOffOrder(m, language, ngram)}}

\* count_unigrams: a map from the languages with at least one unigram of positive frequency
count_unigrams(m, unigrams, filtered_languages) ==
    LET count(language) ==
            Cardinality({unigram \in unigrams :
                IsPositive(look_up_ngram_probability(m, language, unigram))})
    IN [language \in {it \in filtered_languages : count(it) > 0} |-> count(language)]

(***************************************************************************)
(* Statistical scoring.                                                    *)
(***************************************************************************)
\* a slip that narrows to the keys of an empty map as well
NarrowedMutant(filtered_languages, probabilities) ==
    {it \in filtered_languages : it \in DOMAIN probabilities}

\* filtered_languages after an order: narrowed to the keys of the map of the order
\* if the map is not empty
Narrowed(filtered_languages, probabilities) ==
    IF DOMAIN probabilities # {}
    THEN {it \in filtered_languages : it \in DOMAIN probabilities}
    ELSE filtered_languages

RECURSIVE ScoreOrders(_, _, _, _)
\* the loop "for i in 1..6" from order i on; state holds filtered_languages,
\* all_probabilities, unigram_counts and the look-ups made so far
ScoreOrders(m, cleaned_up_text, state, i) ==
    IF i \notin NgramOrders THEN state
    ELSE IF Len(cleaned_up_text) < i THEN ScoreOrders(m, cleaned_up_text, state, i + 1)
    ELSE LET ngrams == TestDataNgrams(cleaned_up_text, i)
             probabilities ==
                compute_language_probabilities(m, ngrams, state.filtered_languages)
             narrowed == Narrowed(state.filtered_languages, probabilities)
         IN ScoreOrders(m, cleaned_up_text,
                [filtered_languages |-> narrowed,
                 narrowed_languages |-> Append(state.narrowed_languages, narrowed),
                 all_probabilities |-> Append(state.all_probabilities, probabilities),
                 unigram_counts |->
                    IF i = 1 THEN count_unigrams(m, ngrams, narrowed)
                    ELSE state.unigram_counts,
                 looked_up |->
                    state.looked_up
                    \cup ProbabilityLookUps(m, ngrams, state.filtered_languages)
                    \cup (IF i = 1 THEN narrowed \X ngrams ELSE {})],
                i + 1)

\* a slip that leaves out the division by the unigram count
SummedUpProbabilityMutant(probabilities, unigram_counts, language) ==
    Rat(SumOver([j \in 1..Len(probabilities) |->
                    IF language \in DOMAIN probabilities[j]
                    THEN probabilities[j][language] ELSE 0],
                1..Len(probabilities)), 1)

\* the body of the loop of sum_up_probabilities: the value a language ends with
SummedUpProbability(probabilities, unigram_counts, language) ==
    LET sum == SumOver([j \in 1..Len(probabilities) |->
                           IF language \in DOMAIN probabilities[j]
                           THEN probabilities[j][language] ELSE 0],
                       1..Len(probabilities))
    IN IF language \in DOMAIN unigram_counts
       THEN Rat(sum, unigram_counts[language])
       ELSE Rat(sum, 1)

\* sum_up_probabilities: a map from the languages whose value is not zero
sum_up_probabilities(probabilities, unigram_counts, filtered_languages) ==
    [language \in {it \in filtered_languages :
                      SummedUpProbability(probabilities, unigram_counts, it).num # 0} |->
        SummedUpProbability(probabilities, unigram_counts, language)]

\* a slip that sorts in ascending order and takes the lowest value
HighestProbabilityMutant(summed_up_probabilities) ==
    LET values == {summed_up_probabilities[it] : it \in DOMAIN summed_up_probabilities}
    IN CHOOSE lowest \in values : \A other \in values : ~RatLess(other, lowest)

\* highest_probability: the first of the values sorted in descending order
HighestProbability(summed_up_probabilities) ==
    LET values == {summed_up_probabilities[it] : it \in DOMAIN summed_up_probabilities}
    IN CHOOSE highest \in values : \A other \in values : ~RatLess(highest, other)

\* a slip that inverts the quotient
ConfidenceMutant(highest_probability, probability) ==
    RatDiv(probability, highest_probability)

\* the confidence value of a language: highest_probability / probability
Confidence(highest_probability, probability) ==
    RatDiv(highest_probability, probability)

\* a slip that leaves out .then(sorted_by_language)
ComesFirstMutant(first, second) == RatLess(second.value, first.value)

\* the comparator of the final sort answers Less: a higher value, or the same value and
\* a language that comes earlier in the enum
ComesFirst(first, second) ==
    \/ RatLess(second.value, first.value)
    \/ /\ first.value = second.value
       /\ LanguageIndex(first.language) < LanguageIndex(second.language)

\* one insertion of a stable sort: x goes before the first element it must precede
InsertSorted(sorted, x) ==
    LET after == {i \in 1..Len(sorted) : ComesFirst(x, sorted[i])}
        at == IF after = {} THEN Len(sorted) + 1
              ELSE CHOOSE i \in after : \A j \in after : i <= j
    IN SubSeq(sorted, 1, at - 1) \o <<x>> \o SubSeq(sorted, at, Len(sorted))

RECURSIVE SortedBy(_)
\* Itertools::sorted_by over the items in the order the HashMap yields them
SortedBy(items) ==
    IF items = <<>> THEN <<>>
    ELSE InsertSorted(SortedBy(SubSeq(items, 1, Len(items) - 1)), items[Len(items)])

\* the orders in which a HashMap can yield its keys
IterationOrders(keys) ==
    {order \in [1..Cardinality(keys) -> keys] :
        \A i, j \in 1..Cardinality(keys) : order[i] = order[j] => i = j}

(***************************************************************************)
(* The public operations.                                                  *)
(***************************************************************************)
\* what compute_language_confidence_values has when it returns before the rule engine
EarlyReturn(cleaned_up_text) ==
    [cleaned_up_text |-> cleaned_up_text,
     returned_at |-> "no_letter",
     words |-> <<>>,
     rules_applied |-> FALSE,
     language_detected_by_rules |-> NoLanguage,
     filter_applied |-> FALSE,
     most_frequent_alphabet |-> "",
     filtered_languages |-> {},
     candidates |-> {},
     narrowed_languages |-> <<>>,
     all_probabilities |-> <<>>,
     unigram_counts |-> <<>>,
     summed_up_probabilities |-> <<>>,
     looked_up |-> {},
     panicked |-> FALSE,
     items |-> {}]

\* the end of compute_language_confidence_values: the quotients highest / probability
WithConfidenceItems(run) ==
    [run EXCEPT
        !.items =
            IF DOMAIN run.summed_up_probabilities = {} THEN {}
            ELSE {[language |-> it,
                   value |-> Confidence(HighestProbability(run.summed_up_probabilities),
                                        run.summed_up_probabilities[it])] :
                    it \in DOMAIN run.summed_up_probabilities}]

\* after the loop over the orders: a lookup for a language without a model panics,
\* otherwise the probabilities are summed up
AfterScoring(self, run, scored) ==
    IF \E look_up \in scored.looked_up : LookUpPanics(self, look_up[1], look_up[2])
    THEN [run EXCEPT
            !.returned_at = "panic",
            !.looked_up = scored.looked_up,
            !.panicked = TRUE]
    ELSE WithConfidenceItems(
            [run EXCEPT
                !.returned_at = "statistics",
                !.candidates = scored.filtered_languages,
                !.narrowed_languages = scored.narrowed_languages,
                !.all_probabilities = scored.all_probabilities,
                !.unigram_counts = scored.unigram_counts,
                !.summed_up_probabilities =
                    sum_up_probabilities(scored.all_probabilities, scored.unigram_counts,
                                         scored.filtered_languages),
                !.looked_up = scored.looked_up])

\* a slip that scores the orders even when one language is left
AfterFilterMutant(self, m, run) ==
    AfterScoring(self, run,
        ScoreOrders(m, run.cleaned_up_text,
            [filtered_languages |-> run.filtered_languages,
             all_probabilities |-> <<>>,
             narrowed_languages |-> <<>>,
             unigram_counts |-> <<>>,
             looked_up |-> {}], 1))

\* a slip that returns early when no language is left instead of one
ReturnsFilteredLanguageMutant(filtered_languages) ==
    Cardinality(filtered_languages) = 0

\* filtered_languages.len() == 1
ReturnsFilteredLanguage(filtered_languages) ==
    Cardinality(filtered_languages) = 1

\* after filter_languages_by_rules: one language left is returned with 1.0, otherwise
\* the orders 1 to 5 are scored
AfterFilter(self, m, run) ==
    IF ReturnsFilteredLanguage(run.filtered_languages)
    THEN [run EXCEPT
            !.items = {[language |-> it, value |-> One] : it \in run.filtered_languages}]
    ELSE AfterScoring(self, run,
            ScoreOrders(m, run.cleaned_up_text,
                [filtered_languages |-> run.filtered_languages,
                 all_probabilities |-> <<>>,
                 narrowed_languages |-> <<>>,
                 unigram_counts |-> <<>>,
                 looked_up |-> {}], 1))

\* a slip that goes on to the filter whatever the rules said
AfterRulesMutant(self, m, run, most_frequent_alphabet) ==
    AfterFilter(self, m,
        [run EXCEPT
            !.returned_at = "filter",
            !.filter_applied = TRUE,
            !.most_frequent_alphabet = most_frequent_alphabet,
            !.filtered_languages =
                filter_languages_by_rules(self, run.words, most_frequent_alphabet)])

\* after detect_language_with_rules: its verdict is returned with 1.0, otherwise the
\* candidates are filtered
AfterRules(self, m, run, most_frequent_alphabet) ==
    IF run.language_detected_by_rules # NoLanguage
    THEN [run EXCEPT
            !.items = {[language |-> run.language_detected_by_rules, value |-> One]}]
    ELSE AfterFilter(self, m,
            [run EXCEPT
                !.returned_at = "filter",
                !.filter_applied = TRUE,
                !.most_frequent_alphabet = most_frequent_alphabet,
                !.filtered_languages =
                    filter_languages_by_rules(self, run.words, most_frequent_alphabet)])

\* after split_text_into_words: the rule engine is asked
AfterSplit(self, m, run, words, most_frequent_alphabet) ==
    AfterRules(self, m,
        [run EXCEPT
            !.returned_at = "rules",
            !.words = words,
            !.rules_applied = TRUE,
            !.language_detected_by_rules = detect_language_with_rules(self, words)],
        most_frequent_alphabet)

\* a slip that leaves the check for letters out
AfterCleanUpMutant(self, m, cleaned_up_text, most_frequent_alphabet) ==
    AfterSplit(self, m, EarlyReturn(cleaned_up_text),
               split_text_into_words(cleaned_up_text), most_frequent_alphabet)

\* after clean_up_input_text: a text without a letter returns the empty list
AfterCleanUp(self, m, cleaned_up_text, most_frequent_alphabet) ==
    IF cleaned_up_text = <<>> \/ NoLetterIsMatch(cleaned_up_text)
    THEN EarlyReturn(cleaned_up_text)
    ELSE AfterSplit(self, m, EarlyReturn(cleaned_up_text),
                    split_text_into_words(cleaned_up_text), most_frequent_alphabet)

\* the steps of compute_language_confidence_values up to the final sort: where it
\* returned, what it computed on the way, and the <<language, value>> items it returns
ConfidenceItems(self, m, text, most_frequent_alphabet) ==
    AfterCleanUp(self, m, clean_up_input_text(text), most_frequent_alphabet)

\* compute_language_confidence_values: the items, sorted from the order the map yields them
compute_language_confidence_values(items, order) ==
    SortedBy([i \in 1..Len(order) |->
                CHOOSE item \in items : item.language = order[i]])

\* a slip that tests the distance against the threshold with <=
BelowMinimumMutant(distance, minimum_relative_distance) ==
    ~RatLess(Rat(minimum_relative_distance, 100), distance)

\* (first - second) < self.minimum_relative_distance, the threshold in hundredths
BelowMinimum(distance, minimum_relative_distance) ==
    RatLess(distance, Rat(minimum_relative_distance, 100))

\* detect_language_of, from the confidence values it computed
detect_language_of(self, confidence_values) ==
    IF confidence_values = <<>> THEN NoLanguage
    ELSE IF Len(confidence_values) = 1 THEN confidence_values[1].language
    ELSE LET distance == RatSub(confidence_values[1].value, confidence_values[2].value)
         IN IF LessThanEpsilon(Rat(Abs(distance.num), distance.den)) THEN NoLanguage
            ELSE IF BelowMinimum(distance, self.minimum_relative_distance) THEN NoLanguage
            ELSE confidence_values[1].language

(***************************************************************************)
(* The state machine: a detector is built, then one operation is called.   *)
(***************************************************************************)
NotCalled == [returned_at |-> "nothing"]

Init ==
    /\ detector \in Detectors
    /\ models = <<>>
    /\ op = "none"
    /\ input = <<>>
    /\ out = NotCalled
    /\ char_sets = BuiltCharSets
    /\ callers = NoCallers

\* what a call leaves behind: the run, the list it returns and the verdict
Outcome(self, run, confidence_values) ==
    [run |-> run,
     confidence_values |-> confidence_values,
     language |->
        IF run.panicked THEN NoLanguage ELSE detect_language_of(self, confidence_values)]

\* the outcomes of a run under every order in which the HashMap can yield its items
Outcomes(self, run) ==
    {Outcome(self, run, compute_language_confidence_values(run.items, order)) :
        order \in IterationOrders({item.language : item \in run.items})}

\* detect_language_of(text), which calls compute_language_confidence_values(text).  The
\* call draws what it cannot control: the content of the model stores, the alphabet and
\* the order that the iteration over a HashMap puts first.
DetectLanguageOf(text) ==
    /\ op = "none"
    /\ \E m \in ModelTables(detector, clean_up_input_text(text)) :
       \E alphabet \in AlphabetChoices(split_text_into_words(clean_up_input_text(text))) :
       \E outcome \in Outcomes(detector, ConfidenceItems(detector, m, text, alphabet)) :
            /\ models' = m
            /\ op' = "detect_language_of"
            /\ input' = text
            /\ out' = outcome
            /\ UNCHANGED <<detector, char_sets, callers>>

Next == op = "none" /\ \E text \in TextsUpTo(MaxTextLen) : DetectLanguageOf(text)

Spec == Init /\ [][Next]_vars

(***************************************************************************)
(* detect_language_of called twice on the same text.                       *)
(***************************************************************************)
\* the characters of the texts detected twice: a Latin letter, a Han ideograph, a
\* Hiragana syllable, a space and a punctuation mark
RepeatedChars == {"a", "zhong", "no", " ", "."}

RepeatedTexts == UNION {[1..k -> RepeatedChars] : k \in 0..MaxRepeatedTextLen}

\* a second call of detect_language_of on the same detector, the same model stores and
\* the same text; the maps it builds are new ones, with an iteration order of their own
DetectLanguageOfAgain ==
    /\ op = "detect_language_of"
    /\ \E alphabet \in AlphabetChoices(split_text_into_words(clean_up_input_text(input))) :
       \E outcome \in Outcomes(detector, ConfidenceItems(detector, models, input, alphabet)) :
            /\ op' = "detect_language_of_again"
            /\ out' = [first |-> out, second |-> outcome]
            /\ UNCHANGED <<detector, models, input, char_sets, callers>>

NextRepeated ==
    \/ op = "none" /\ \E text \in RepeatedTexts : DetectLanguageOf(text)
    \/ DetectLanguageOfAgain

SpecRepeated == Init /\ [][NextRepeated]_vars

(***************************************************************************)
(* The same text detected by a second detector that differs from the first *)
(* in minimum_relative_distance only.                                      *)
(***************************************************************************)
\* the longest text detected twice
MaxThresholdTextLen == 3

ThresholdChars == {"a", "b", "zhong", " "}
ThresholdTexts == UNION {[1..k -> ThresholdChars] : k \in 0..MaxThresholdTextLen}

\* the detector with another minimum_relative_distance
WithMinimumRelativeDistance(self, distance) ==
    [self EXCEPT !.minimum_relative_distance = distance]

\* the first detector has the threshold 0.0, the default of the builder
InitThreshold ==
    /\ detector \in {it \in Detectors : it.minimum_relative_distance = 0}
    /\ models = <<>>
    /\ op = "none"
    /\ input = <<>>
    /\ out = NotCalled
    /\ char_sets = BuiltCharSets
    /\ callers = NoCallers

DetectLanguageOfWithDistance(distance) ==
    /\ op = "detect_language_of"
    /\ detector.minimum_relative_distance <= distance
    /\ \E alphabet \in AlphabetChoices(split_text_into_words(clean_up_input_text(input))) :
       \E outcome \in Outcomes(WithMinimumRelativeDistance(detector, distance),
                               ConfidenceItems(detector, models, input, alphabet)) :
            /\ op' = "detect_language_of_with_distance"
            /\ out' = [first |-> out, second |-> outcome, distance |-> distance]
            /\ UNCHANGED <<detector, models, input, char_sets, callers>>

NextThreshold ==
    \/ op = "none" /\ \E text \in ThresholdTexts : DetectLanguageOf(text)
    \/ \E distance \in MinimumRelativeDistances : DetectLanguageOfWithDistance(distance)

SpecThreshold == InitThreshold /\ [][NextThreshold]_vars

(***************************************************************************)
(* The rule engine called on its own, as the tests call it.                *)
(***************************************************************************)
InitRules ==
    /\ detector \in {it \in Detectors : it.minimum_relative_distance = 0}
    /\ models = <<>>
    /\ op = "none"
    /\ input = <<>>
    /\ out = NotCalled
    /\ char_sets = BuiltCharSets
    /\ callers = NoCallers

DetectLanguageWithRules(words) ==
    /\ op = "none"
    /\ op' = "detect_language_with_rules"
    /\ input' = words
    /\ out' = [language |-> detect_language_with_rules(detector, words),
               word_language_counts |->
                    [i \in 1..Len(words) |-> WordLanguageCounts(detector, words[i])],
               credited |-> [i \in 1..Len(words) |-> WordVerdict(detector, words[i])],
               total_language_counts |-> TotalLanguageCounts(detector, words)]
    /\ UNCHANGED <<detector, models, char_sets, callers>>

FilterLanguagesByRules(words) ==
    /\ op = "none"
    /\ \E alphabet \in AlphabetChoices(words) :
        /\ op' = "filter_languages_by_rules"
        /\ input' = words
        /\ out' = [most_frequent_alphabet |-> alphabet,
                   languages |-> filter_languages_by_rules(detector, words, alphabet)]
    /\ UNCHANGED <<detector, models, char_sets, callers>>

\* the characters a cleaned-up text is made of: lowercase letters, symbols and single
\* spaces ("$" stands for every character that belongs to no alphabet)
CleanedUpChars == (Letters \ {"A"}) \cup {"$", " "}

\* the texts the rule engine is handed, split at the spaces
RuleTexts == UNION {[1..k -> CleanedUpChars] : k \in 0..MaxRuleTextLen}

NextRules ==
    /\ op = "none"
    /\ \E text \in RuleTexts :
        \/ DetectLanguageWithRules(SplitOn(text, " "))
        \/ FilterLanguagesByRules(SplitOn(text, " "))

SpecRules == InitRules /\ [][NextRules]_vars

(***************************************************************************)
(* filter_languages_by_rules called with words that hold hint characters.  *)
(***************************************************************************)
\* the longest list of words handed to the filter
MaxHintWords == 3

\* words with characters of both entries of the table, of one entry, and of none
HintWords == {<<"ue", "ae">>, <<"ue">>, <<"ae", "a">>, <<"a">>, <<"zhong">>}

HintWordLists == UNION {[1..k -> HintWords] : k \in 0..MaxHintWords}

NextHints == op = "none" /\ \E words \in HintWordLists : FilterLanguagesByRules(words)

SpecHints == InitRules /\ [][NextHints]_vars

(***************************************************************************)
(* Input normalization called on its own.                                  *)
(***************************************************************************)
InitCleanUp ==
    /\ detector = detector_for_all_languages
    /\ models = <<>>
    /\ op = "none"
    /\ input = <<>>
    /\ out = NotCalled
    /\ char_sets = BuiltCharSets
    /\ callers = NoCallers

CleanUpInputText(text) ==
    /\ op = "none"
    /\ op' = "clean_up_input_text"
    /\ input' = text
    /\ out' = [cleaned_up_text |-> clean_up_input_text(text),
               words |-> split_text_into_words(clean_up_input_text(text))]
    /\ UNCHANGED <<detector, models, char_sets, callers>>

NextCleanUp == op = "none" /\ \E text \in TextsUpTo(MaxCleanUpLen) : CleanUpInputText(text)

SpecCleanUp == InitCleanUp /\ [][NextCleanUp]_vars

(***************************************************************************)
(* look_up_ngram_probability called on its own, over the five model stores.*)
(***************************************************************************)
\* the longest n-gram handed to the look-up
MaxNgramLen == 6

\* the n-gram of k letters "a"
NgramOfLength(k) == [i \in 1..k |-> "a"]

\* the contents a training model of order k can have: n-gram -> relative frequency in
\* (0.0, 1.0], here for the one n-gram NgramOfLength(k)
TrainingModels(k) ==
    UNION {[held -> Frequencies \ {Zero}] : held \in SUBSET {NgramOfLength(k)}}

\* the contents a store of order k can have: language -> training model
LanguageModels(k) ==
    UNION {[languages -> TrainingModels(k)] : languages \in SUBSET {"English"}}

\* the five stores of a detector
ModelStores ==
    [unigram_language_models : LanguageModels(1),
     bigram_language_models : LanguageModels(2),
     trigram_language_models : LanguageModels(3),
     quadrigram_language_models : LanguageModels(4),
     fivegram_language_models : LanguageModels(5)]

\* TrainingDataLanguageModel::get_relative_frequency: an absent n-gram yields 0.0
get_relative_frequency(model, ngram) ==
    IF ngram \in DOMAIN model THEN model[ngram] ELSE Zero

\* a slip that reads the unigram store whatever the length of the n-gram
MatchedStoreMutant(stores, count) ==
    CASE count = 0 -> [panic |-> "zerogram detected", language_models |-> <<>>]
      [] count \in 1..5 -> [panic |-> "", language_models |-> stores.unigram_language_models]
      [] OTHER -> [panic |-> "unsupported ngram length detected", language_models |-> <<>>]

\* the match on ngram.value.chars().count()
MatchedStore(stores, count) ==
    CASE count = 5 -> [panic |-> "", language_models |-> stores.fivegram_language_models]
      [] count = 4 -> [panic |-> "", language_models |-> stores.quadrigram_language_models]
      [] count = 3 -> [panic |-> "", language_models |-> stores.trigram_language_models]
      [] count = 2 -> [panic |-> "", language_models |-> stores.bigram_language_models]
      [] count = 1 -> [panic |-> "", language_models |-> stores.unigram_language_models]
      [] count = 0 -> [panic |-> "zerogram detected", language_models |-> <<>>]
      [] OTHER -> [panic |-> "unsupported ngram length detected", language_models |-> <<>>]

\* language_models.get(language).unwrap().get_relative_frequency(ngram)
UnwrappedFrequency(matched, language, ngram) ==
    IF matched.panic # ""
    THEN [panic |-> matched.panic, probability |-> Zero]
    ELSE IF language \notin DOMAIN matched.language_models
    THEN [panic |-> "called Option::unwrap() on a None value", probability |-> Zero]
    ELSE [panic |-> "",
          probability |-> get_relative_frequency(matched.language_models[language], ngram)]

InitLookUp ==
    /\ detector = detector_for_english_and_german
    /\ models = <<>>
    /\ op = "none"
    /\ input = <<>>
    /\ out = NotCalled
    /\ char_sets = BuiltCharSets
    /\ callers = NoCallers

LookUpNgramProbability(stores, language, ngram) ==
    /\ op = "none"
    /\ op' = "look_up_ngram_probability"
    /\ models' = stores
    /\ input' = ngram
    /\ out' = [language |-> language,
               looked_up |-> UnwrappedFrequency(MatchedStore(stores, Len(ngram)),
                                                language, ngram)]
    /\ UNCHANGED <<detector, char_sets, callers>>

NextLookUp ==
    op = "none" /\ \E stores \in ModelStores, language \in StatLanguages, k \in 0..MaxNgramLen :
        LookUpNgramProbability(stores, language, NgramOfLength(k))

SpecLookUp == InitLookUp /\ [][NextLookUp]_vars

(***************************************************************************)
(* Alphabet::matches called by several threads: every static character set *)
(* is a once_cell::sync::Lazy, whose force lets one thread run the         *)
(* initialiser while the others wait for the value.                        *)
(***************************************************************************)
\* the number of threads
NumCallers == 2
Callers == 1..NumCallers

\* the characters the threads ask about
MatchedChars == {"a", "zhong"}

\* the characters of the model in the order of their codepoints
CodepointOrder == <<"A", "a", "b", "sz", "ae", "ue", "no", "zhong">>

\* the codepoints of the range table of a script, in the order of the table
ScriptTable(alphabet) ==
    SelectSeq(CodepointOrder, LAMBDA c : c \in AlphabetChars(alphabet))

\* static X: Lazy<CharSet> = Lazy::new(..) before its first use
Uninitialised == [state |-> "uninit", characters |-> {}, initialisations |-> 0]

\* a thread that is not inside a call
Idle ==
    [pc |-> "idle", alphabet |-> "", ch |-> "", characters |-> {}, inserted |-> 0,
     observed |-> {}, result |-> FALSE]

InitLazy ==
    /\ detector = detector_for_all_languages
    /\ models = <<>>
    /\ op = "none"
    /\ input = <<>>
    /\ out = NotCalled
    /\ char_sets = [alphabet \in Alphabets |-> Uninitialised]
    /\ callers = [t \in Callers |-> Idle]

\* a thread calls alphabet.matches(ch)
CallMatches(t, alphabet, ch) ==
    /\ callers[t].pc \in {"idle", "returned"}
    /\ callers' = [callers EXCEPT ![t] = [Idle EXCEPT !.pc = "deref",
                                                     !.alphabet = alphabet,
                                                     !.ch = ch]]
    /\ UNCHANGED <<detector, models, op, input, out, char_sets>>

\* a slip that lets a thread run the initialiser while another thread is running it
MayInitialiseMutant(cell) == cell.state # "complete"

\* Lazy::force: the thread that finds the cell untouched runs the initialiser
MayInitialise(cell) == cell.state = "uninit"

\* self.char_set() dereferenced: a complete cell is read; an untouched cell is taken
\* by the thread, which starts CharSet::from_char_classes with an empty set; a thread
\* that finds the initialiser running waits
Deref(t) ==
    /\ callers[t].pc = "deref"
    /\ IF char_sets[callers[t].alphabet].state = "complete"
       THEN /\ callers' = [callers EXCEPT
                    ![t].pc = "is_char_match",
                    ![t].observed = char_sets[callers[t].alphabet].characters]
            /\ UNCHANGED char_sets
       ELSE /\ MayInitialise(char_sets[callers[t].alphabet])
            /\ char_sets' = [char_sets EXCEPT
                    ![callers[t].alphabet].state = "running",
                    ![callers[t].alphabet].initialisations = @ + 1]
            /\ callers' = [callers EXCEPT ![t].pc = "from_char_classes"]
    /\ UNCHANGED <<detector, models, op, input, out>>

\* CharSet::from_char_classes: characters.insert(codepoint), into the set of the thread
InsertCodepoint(t) ==
    /\ callers[t].pc = "from_char_classes"
    /\ callers[t].inserted < Len(ScriptTable(callers[t].alphabet))
    /\ callers' = [callers EXCEPT
            ![t].characters = @ \cup {ScriptTable(callers[t].alphabet)[callers[t].inserted + 1]},
            ![t].inserted = @ + 1]
    /\ UNCHANGED <<detector, models, op, input, out, char_sets>>

\* the initialiser returns CharSet { characters } and Lazy stores it
Publish(t) ==
    /\ callers[t].pc = "from_char_classes"
    /\ callers[t].inserted = Len(ScriptTable(callers[t].alphabet))
    /\ char_sets' = [char_sets EXCEPT
            ![callers[t].alphabet].state = "complete",
            ![callers[t].alphabet].characters = callers[t].characters]
    /\ callers' = [callers EXCEPT ![t].pc = "deref"]
    /\ UNCHANGED <<detector, models, op, input, out>>

\* CharSet::is_char_match on the set the thread got
IsCharMatch(t) ==
    /\ callers[t].pc = "is_char_match"
    /\ callers' = [callers EXCEPT
            ![t].pc = "returned",
            ![t].result = callers[t].ch \in callers[t].observed]
    /\ UNCHANGED <<detector, models, op, input, out, char_sets>>

NextLazy ==
    \E t \in Callers :
        \/ \E alphabet \in Alphabets, ch \in MatchedChars : CallMatches(t, alphabet, ch)
        \/ Deref(t)
        \/ InsertCodepoint(t)
        \/ Publish(t)
        \/ IsCharMatch(t)

SpecLazy == InitLazy /\ [][NextLazy]_vars

(***************************************************************************)
(* Properties of detect_language_of and compute_language_confidence_values,*)
(* stated on the outcome of a call under Spec.                             *)
(***************************************************************************)
Detected == op = "detect_language_of"

\* C1: every value of the list compute_language_confidence_values returns lies in
\* (0.0, 1.0], and the first value of a non-empty list is exactly 1.0.
ConfidenceValuesInRange ==
    Detected =>
        /\ \A i \in 1..Len(out.confidence_values) :
            /\ RatLess(Rat(0, 1), out.confidence_values[i].value)
            /\ ~RatLess(One, out.confidence_values[i].value)
        /\ out.confidence_values # <<>> => out.confidence_values[1].value = One

\* C1 happens: the statistics return two languages, the second with a value below 1.0
ConfidenceBelowOneReturned ==
    /\ Detected
    /\ out.run.returned_at = "statistics"
    /\ Len(out.confidence_values) = 2
    /\ RatLess(out.confidence_values[2].value, One)

\* C2: the returned list is ordered by descending value, and entries of equal value by
\* ascending Language order, whatever order the iteration over the map had.
ConfidenceValuesSorted ==
    Detected =>
        \A i, j \in 1..Len(out.confidence_values) :
            i < j =>
                /\ ~RatLess(out.confidence_values[i].value, out.confidence_values[j].value)
                /\ out.confidence_values[i].value = out.confidence_values[j].value =>
                    LanguageIndex(out.confidence_values[i].language)
                        < LanguageIndex(out.confidence_values[j].language)

\* C2 happens: two languages are returned with the same value
EqualValuesReturned ==
    /\ Detected
    /\ Len(out.confidence_values) = 2
    /\ out.confidence_values[1].value = out.confidence_values[2].value

\* C3: a text whose cleaned-up form is empty or has no letter gets the empty list and
\* None, and neither the rules nor the models are consulted.
NoLetterReturnsNothing ==
    Detected /\ (clean_up_input_text(input) = <<>>
                 \/ NoLetterIsMatch(clean_up_input_text(input))) =>
        /\ out.confidence_values = <<>>
        /\ out.language = NoLanguage
        /\ ~out.run.rules_applied
        /\ ~out.run.filter_applied
        /\ out.run.looked_up = {}

\* C3 happens: a text of characters none of which is a letter, not all of them removed
NoLetterTextDetected ==
    /\ Detected
    /\ NoLetterIsMatch(clean_up_input_text(input))
    /\ out.run.returned_at = "no_letter"

\* C4: a detector configured with exactly one language L answers Some(L) or None to
\* every non-empty input, never another language.
SingleLanguageOrNone ==
    Detected /\ Cardinality(detector.languages) = 1 /\ input # <<>> =>
        out.language \in detector.languages \cup {NoLanguage}

\* C5: detect_language_of is None for the empty list, the first language for a list of
\* one, and for a longer list None when d = first - second is below f64::EPSILON or below
\* minimum_relative_distance and the first language otherwise.
DetectLanguageOfGate ==
    Detected /\ ~out.run.panicked =>
        /\ Len(out.confidence_values) = 0 => out.language = NoLanguage
        /\ Len(out.confidence_values) = 1 =>
            out.language = out.confidence_values[1].language
        /\ Len(out.confidence_values) >= 2 =>
            LET d == RatSub(out.confidence_values[1].value, out.confidence_values[2].value)
            IN out.language =
                IF \/ LessThanEpsilon(d)
                   \/ RatLess(d, Rat(detector.minimum_relative_distance, 100))
                THEN NoLanguage
                ELSE out.confidence_values[1].language
        /\ out.language # NoLanguage => out.language = out.confidence_values[1].language

\* C5 happens: a distance that is not below a positive minimum_relative_distance
DistantFirstLanguageReturned ==
    /\ Detected
    /\ Len(out.confidence_values) >= 2
    /\ detector.minimum_relative_distance > 0
    /\ out.language = out.confidence_values[1].language

HasLetter(cleaned_up_text) ==
    cleaned_up_text # <<>> /\ ~NoLetterIsMatch(cleaned_up_text)

\* C6: when detect_language_with_rules returns Some(L) for the words of a cleaned text
\* with a letter, compute_language_confidence_values returns exactly [(L, 1.0)].
RuleVerdictReturnedAlone ==
    Detected /\ HasLetter(clean_up_input_text(input)) =>
        LET verdict == detect_language_with_rules(detector,
                            split_text_into_words(clean_up_input_text(input)))
        IN verdict # NoLanguage =>
            out.confidence_values = <<[language |-> verdict, value |-> One]>>

\* C6 happens: the rules name a language for a text that the statistics could also score
RuleVerdictReturned ==
    /\ Detected
    /\ out.run.returned_at = "rules"
    /\ out.run.language_detected_by_rules \in detector.languages
    /\ \E i \in 1..Len(input) : <<input[i]>> \in ModelNgrams

\* C7: when the rules return None and filter_languages_by_rules leaves exactly one
\* language M, the list is exactly [(M, 1.0)], whatever the n-gram models hold.
SingleCandidateReturnedAlone ==
    Detected /\ HasLetter(clean_up_input_text(input)) =>
        LET words == split_text_into_words(clean_up_input_text(input))
        IN detect_language_with_rules(detector, words) = NoLanguage =>
            LET filtered ==
                    filter_languages_by_rules(detector, words, out.run.most_frequent_alphabet)
            IN Cardinality(filtered) = 1 =>
                /\ out.confidence_values \in
                        {<<[language |-> it, value |-> One]>> : it \in filtered}
                /\ out.run.looked_up = {}

\* C7 happens: one language is left for a text the models hold no n-gram of with a
\* positive frequency
SingleCandidateWithoutFrequency ==
    /\ Detected
    /\ out.run.returned_at = "filter"
    /\ Len(out.confidence_values) = 1
    /\ DOMAIN models # {}
    /\ \A slot \in DOMAIN models : ~IsPositive(models[slot])

\* no language the filter left has a positive frequency, at any order, for an n-gram
\* of the text
NoPositiveFrequency ==
    \A slot \in DOMAIN models :
        slot[1] \in out.run.filtered_languages => ~IsPositive(models[slot])

\* C8 as stated: when no language the filter left has a positive frequency at any
\* order (none left included), the list is empty, detect_language_of is None and nothing
\* aborts.
NoFrequencyReturnsNothing ==
    Detected /\ out.run.filter_applied /\ NoPositiveFrequency =>
        /\ out.confidence_values = <<>>
        /\ out.language = NoLanguage
        /\ ~out.run.panicked

\* C8 amended: the same, when the filter leaves no language or more than one and the
\* model stores hold an entry for each of them.
NoFrequencyReturnsNothingFromStores ==
    /\ Detected
    /\ out.run.filter_applied
    /\ Cardinality(out.run.filtered_languages) # 1
    /\ out.run.filtered_languages \subseteq detector.model_languages
    /\ NoPositiveFrequency
    => /\ out.confidence_values = <<>>
       /\ out.language = NoLanguage
       /\ ~out.run.panicked

\* C8 happens: two languages are scored and the stores hold no positive frequency
NothingScored ==
    /\ Detected
    /\ out.run.returned_at = "statistics"
    /\ Cardinality(out.run.filtered_languages) = 2
    /\ DOMAIN models # {}
    /\ NoPositiveFrequency
    /\ out.run.looked_up # {}

\* the languages of the list a call returned
ListedLanguages ==
    {out.confidence_values[i].language : i \in 1..Len(out.confidence_values)}

\* the model of the language holds no positive frequency for a unigram of the text
NoUnigramHit(language) ==
    \A slot \in DOMAIN models :
        slot[1] = language /\ Len(slot[2]) = 1 => ~IsPositive(models[slot])

PositivePrefixes(language, ngram) ==
    {prefix \in {SubSeq(ngram, 1, k) : k \in 1..Len(ngram)} :
        /\ <<language, prefix>> \in DOMAIN models
        /\ models[<<language, prefix>>][1] > 0}

\* ln(p) of the longest prefix with a positive frequency, nothing without such a prefix
LongestPositivePrefixLogarithm(language, ngram) ==
    IF PositivePrefixes(language, ngram) = {} THEN 0
    ELSE LET longest == CHOOSE prefix \in PositivePrefixes(language, ngram) :
                            \A other \in PositivePrefixes(language, ngram) :
                                Len(other) <= Len(prefix)
         IN Log2(models[<<language, longest>>][1]) - Log2(models[<<language, longest>>][2])

\* the sum the claim gives for the n-grams of order i of the cleaned-up text
SumOfLongestPrefixLogarithms(language, i) ==
    SumOver([ngram \in TestDataNgrams(out.run.cleaned_up_text, i) |->
                LongestPositivePrefixLogarithm(language, ngram)],
            TestDataNgrams(out.run.cleaned_up_text, i))

\* C15: the sum compute_sum_of_ngram_probabilities gives a language for the n-grams of an
\* order is the sum, over the n-grams, of ln(p) of the longest prefix with a strictly
\* positive frequency, an n-gram without a positive prefix contributing nothing; the
\* languages left out of the order's map are the ones whose sum is not below zero.
SumOverLongestPositivePrefixes ==
    (Detected /\ out.run.returned_at = "statistics") =>
        \A i \in 1..Len(out.run.all_probabilities) :
            /\ \A language \in DOMAIN out.run.all_probabilities[i] :
                out.run.all_probabilities[i][language] = SumOfLongestPrefixLogarithms(language, i)
            /\ \A language \in out.run.candidates \ DOMAIN out.run.all_probabilities[i] :
                SumOfLongestPrefixLogarithms(language, i) = 0

\* C15 happens: both languages are scored at order 1; at order 2 the bigram "ab" has no
\* positive frequency for English and the descent backs off to the unigram "a", while
\* German, without a positive prefix of "ab", gets nothing
BackedOffToUnigram ==
    /\ Detected
    /\ out.run.returned_at = "statistics"
    /\ out.run.cleaned_up_text = <<"a", "b">>
    /\ DOMAIN out.run.all_probabilities[1] = {"English", "German"}
    /\ PositivePrefixes("English", <<"a", "b">>) = {<<"a">>}
    /\ PositivePrefixes("German", <<"a", "b">>) = {}
    /\ out.run.all_probabilities[2] = [language \in {"English"} |-> -1]

\* the detector was built by LanguageDetector::from, whose stores hold every language
BuiltByFrom == detector.model_languages = Languages

\* C17 as stated: one_language_alphabets of a detector built by from(S) maps an alphabet A
\* to a language L exactly when L is the only language of S that uses A.
OneLanguageAlphabetsAmongConfigured ==
    BuiltByFrom =>
        \A alphabet \in Alphabets, language \in Languages :
            <<alphabet, language>> \in detector.one_language_alphabets
                <=> {it \in detector.languages : alphabet \in LanguageAlphabets(it)}
                    = {language}

\* C17 amended: one_language_alphabets of a detector built by from(S) maps an alphabet A
\* to a language L exactly when L is the only language of the whole catalog that uses A
\* and L is in S.
OneLanguageAlphabetsAmongAll ==
    BuiltByFrom =>
        \A alphabet \in Alphabets, language \in Languages :
            <<alphabet, language>> \in detector.one_language_alphabets
                <=> /\ {it \in Languages : alphabet \in LanguageAlphabets(it)} = {language}
                    /\ language \in detector.languages

\* C17 happens: a detector built for Japanese alone maps Hiragana to Japanese and leaves
\* out Han, which Chinese uses as well
JapaneseDetectorBuilt ==
    /\ BuiltByFrom
    /\ detector.languages = {"Japanese"}
    /\ detector.one_language_alphabets = {<<"Hiragana", "Japanese">>}
    /\ op = "detect_language_with_rules"

(***************************************************************************)
(* Properties of look_up_ngram_probability, under SpecLookUp.              *)
(***************************************************************************)
LookedUp == op = "look_up_ngram_probability"

\* the store of the models of order k
StoreOfOrder(k) ==
    <<models.unigram_language_models, models.bigram_language_models,
      models.trigram_language_models, models.quadrigram_language_models,
      models.fivegram_language_models>>[k]

\* C16: for an n-gram of 1 to 5 letters look_up_ngram_probability returns the relative
\* frequency the store of the n-gram's own length holds for the language (0.0 for an
\* n-gram the model does not hold); a zero-length n-gram, an n-gram longer than 5 and a
\* language absent from the chosen store each abort instead of returning a value.
LookUpReadsOwnStoreOrAborts ==
    LookedUp =>
        IF Len(input) = 0 \/ Len(input) > 5
        THEN out.looked_up.panic # ""
        ELSE IF out.language \notin DOMAIN StoreOfOrder(Len(input))
        THEN out.looked_up.panic # ""
        ELSE /\ out.looked_up.panic = ""
             /\ out.looked_up.probability =
                    IF input \in DOMAIN StoreOfOrder(Len(input))[out.language]
                    THEN StoreOfOrder(Len(input))[out.language][input]
                    ELSE Zero

\* C16 happens: the bigram store holds 0.5 for "aa" and the look-up returns it, while
\* the unigram store has no model of the language at all
BigramStoreRead ==
    /\ LookedUp
    /\ input = <<"a", "a">>
    /\ out.language = "English"
    /\ DOMAIN models.unigram_language_models = {}
    /\ out.looked_up = [panic |-> "", probability |-> <<1, 2>>]

(***************************************************************************)
(* Properties of clean_up_input_text, under SpecCleanUp.                   *)
(***************************************************************************)
\* C9: clean_up_input_text is idempotent: cleaning a cleaned text changes nothing.
CleanUpIdempotent ==
    op = "clean_up_input_text" =>
        clean_up_input_text(out.cleaned_up_text) = out.cleaned_up_text

\* C27: the cleaned-up text has no leading or trailing space and no two consecutive
\* spaces, so every word split from a text with a letter, which is what the rule engine
\* and the filter are handed, is non-empty.
CleanedUpTextHasNoStraySpace ==
    op = "clean_up_input_text" =>
        /\ out.cleaned_up_text # <<>> =>
            /\ out.cleaned_up_text[1] # " "
            /\ out.cleaned_up_text[Len(out.cleaned_up_text)] # " "
        /\ \A i \in 1..(Len(out.cleaned_up_text) - 1) :
            ~(out.cleaned_up_text[i] = " " /\ out.cleaned_up_text[i + 1] = " ")
        /\ (\E i \in 1..Len(out.cleaned_up_text) : out.cleaned_up_text[i] \in Letters) =>
            \A w \in 1..Len(out.words) : out.words[w] # <<>>

(***************************************************************************)
(* Properties of filter_languages_by_rules, under SpecRules.               *)
(***************************************************************************)
\* C10: the set filter_languages_by_rules returns is a subset of the languages the
\* detector is configured with.
FilterWithinConfigured ==
    op = "filter_languages_by_rules" => out.languages \subseteq detector.languages

\* C10 happens: a word with a character that hints at a language narrows the languages
\* of the most frequent alphabet
FilterNarrowedByHint ==
    /\ op = "filter_languages_by_rules"
    /\ \E i \in 1..Len(input) : WordHintLanguages(input[i]) # {}
    /\ out.languages # {}
    /\ out.languages # detector.languages

FilterCalled == op = "filter_languages_by_rules"

\* the positions in the enum of the alphabets that contain every character of the word
ContainingAlphabets(word) ==
    {k \in 1..Len(AlphabetOrder) :
        \A c \in 1..Len(word) : word[c] \in AlphabetChars(AlphabetOrder[k])}

\* the number of words that credit the alphabet at position k of the enum, each word
\* crediting the first alphabet that contains all of its characters
CreditedWords(k) ==
    Cardinality({i \in 1..Len(input) :
        /\ k \in ContainingAlphabets(input[i])
        /\ \A j \in ContainingAlphabets(input[i]) : k <= j})

\* the positions in the enum of the alphabets with the highest word count
HighestCountAlphabets ==
    {k \in 1..Len(AlphabetOrder) :
        /\ CreditedWords(k) > 0
        /\ \A j \in 1..Len(AlphabetOrder) : CreditedWords(j) <= CreditedWords(k)}

\* C18: each word credits the first alphabet in enum order that contains all of its
\* characters, and the alphabet chosen as most frequent is, among the alphabets with the
\* highest word count, the one that comes first in the enum order.
FirstOfHighestCountChosen ==
    (FilterCalled /\ HighestCountAlphabets # {}) =>
        out.most_frequent_alphabet =
            AlphabetOrder[CHOOSE k \in HighestCountAlphabets :
                            \A j \in HighestCountAlphabets : k <= j]

\* the positions in the table of the entries that share a character with the word
SharingEntries(word) ==
    {i \in 1..Len(CharsToLanguagesMapping) :
        \E j \in 1..Len(CharsToLanguagesMapping[i].characters), k \in 1..Len(word) :
            word[k] = CharsToLanguagesMapping[i].characters[j]}

\* the number of words whose first sharing entry lists the language
HintCount(language) ==
    Cardinality({w \in 1..Len(input) :
        \E i \in SharingEntries(input[w]) :
            /\ \A j \in SharingEntries(input[w]) : i <= j
            /\ language \in CharsToLanguagesMapping[i].languages})

\* S: the languages whose count is at least half the number of words
AtLeastHalfLanguages ==
    {language \in Languages : 2 * HintCount(language) >= Len(input)}

\* the configured languages that use the most frequent alphabet
ScriptFiltered ==
    {language \in detector.languages :
        out.most_frequent_alphabet \in LanguageAlphabets(language)}

RulesCalled == op = "detect_language_with_rules"

\* the languages L such that every character of the word lies in one alphabet that
\* supports L and no other language
SingleLanguageAlphabetLanguages(word) ==
    {entry[2] : entry \in {it \in all_supporting_single_language : matches(it[1], word)}}

\* C11 as stated: for a single word whose characters all lie in one alphabet that
\* supports only the language L, detect_language_with_rules returns Some(L).
SingleLanguageAlphabetWordDetected ==
    RulesCalled /\ Len(input) = 1 /\ input[1] # <<>> =>
        \A language \in SingleLanguageAlphabetLanguages(input[1]) : out.language = language

\* C11 amended: the same, for a language L the detector is configured with.
ConfiguredSingleLanguageAlphabetWordDetected ==
    RulesCalled /\ Len(input) = 1 /\ input[1] # <<>> =>
        \A language \in SingleLanguageAlphabetLanguages(input[1]) \cap detector.languages :
            out.language = language

\* C11 happens: a word of two Hiragana syllables given to a detector that has Japanese
HiraganaWordDetected ==
    /\ RulesCalled
    /\ input = <<<<"no", "no">>>>
    /\ "Japanese" \in detector.languages
    /\ out.language = "Japanese"

(***************************************************************************)
(* Properties of repeated detection, under SpecRepeated.                   *)
(***************************************************************************)
\* C13: detection is a pure function: with the detector and the model tables fixed, two
\* calls on the same text return the same list and the same language, whatever the
\* iteration order of the hash maps.
DetectionRepeatable ==
    op = "detect_language_of_again" =>
        /\ out.second.confidence_values = out.first.confidence_values
        /\ out.second.language = out.first.language

\* the languages the counter of word i holds
CountedLanguages(i) ==
    {language \in Languages : out.word_language_counts[i][language] > 0}

\* the languages of the counter of word i whose count is above every other count
StrictlyHighest(i) ==
    {language \in CountedLanguages(i) :
        \A other \in CountedLanguages(i) \ {language} :
            out.word_language_counts[i][other] < out.word_language_counts[i][language]}

\* C20: every word adds exactly one credit to the global counter, so the credits sum to
\* the number of words; the credit goes to None for an empty word counter, to the sole
\* counted language if it is configured and to None if it is not, to Japanese when both
\* Chinese and Japanese were counted, and otherwise to the language with the strictly
\* highest count if there is one and it is configured, else to None.
OneCreditPerWord ==
    RulesCalled =>
        /\ SumOver(out.total_language_counts, DOMAIN out.total_language_counts) = Len(input)
        /\ \A key \in DOMAIN out.total_language_counts :
            out.total_language_counts[key]
                = Cardinality({i \in 1..Len(input) : out.credited[i] = key})
        /\ \A i \in 1..Len(input) :
            out.credited[i] =
                IF CountedLanguages(i) = {} THEN NoLanguage
                ELSE IF Cardinality(CountedLanguages(i)) = 1
                THEN (IF CountedLanguages(i) \subseteq detector.languages
                      THEN CHOOSE it \in CountedLanguages(i) : TRUE
                      ELSE NoLanguage)
                ELSE IF {"Chinese", "Japanese"} \subseteq CountedLanguages(i)
                THEN "Japanese"
                ELSE IF StrictlyHighest(i) \cap detector.languages # {}
                THEN CHOOSE it \in StrictlyHighest(i) : TRUE
                ELSE NoLanguage

\* C20 happens: a word counts Chinese twice and German once, and Chinese, which is
\* configured, gets the credit of the word
StrictlyHighestCredited ==
    /\ RulesCalled
    /\ input = <<<<"zhong", "sz", "zhong">>>>
    /\ out.word_language_counts[1]["Chinese"] = 2
    /\ out.word_language_counts[1]["German"] = 1
    /\ out.credited = <<"Chinese">>
    /\ out.total_language_counts["Chinese"] = 1

\* the keys left in the global counter once the None key is dropped for a count below
\* half the number of words
RemainingKeys ==
    {key \in DOMAIN out.total_language_counts :
        /\ out.total_language_counts[key] > 0
        /\ key = NoLanguage => 2 * out.total_language_counts[NoLanguage] >= Len(input)}

\* the remaining keys whose count is above the count of every other remaining key
HighestRemainingKeys ==
    {key \in RemainingKeys :
        \A other \in RemainingKeys \ {key} :
            out.total_language_counts[other] < out.total_language_counts[key]}

\* C21: after the words are credited the None key is dropped exactly when its count is
\* below half the number of words; the result is None for an empty counter, the single
\* remaining key when there is one (None included), and otherwise the key with the
\* highest count, or None when the two highest counts are equal.
RuleVerdictFromRemainingKeys ==
    RulesCalled =>
        out.language =
            IF RemainingKeys = {} THEN NoLanguage
            ELSE IF Cardinality(RemainingKeys) = 1 THEN CHOOSE key \in RemainingKeys : TRUE
            ELSE IF HighestRemainingKeys # {} THEN CHOOSE key \in HighestRemainingKeys : TRUE
            ELSE NoLanguage

\* C21 happens: of two words one is credited to None and one to Japanese; at exactly half
\* of the words the None key stays, the two counts are equal and the result is None
NoneKeyKeptAtHalf ==
    /\ RulesCalled
    /\ Len(input) = 2
    /\ out.total_language_counts[NoLanguage] = 1
    /\ out.total_language_counts["Japanese"] = 1
    /\ out.language = NoLanguage

(***************************************************************************)
(* Properties of the statistical scoring, under Spec.                      *)
(***************************************************************************)
Scored == Detected /\ out.run.returned_at = "statistics"

RECURSIVE CandidatesBefore(_)
\* the candidates handed to order i: the filtered languages, narrowed after every earlier
\* order to the keys of its map when the map is not empty
CandidatesBefore(i) ==
    IF i = 1 THEN out.run.filtered_languages
    ELSE IF DOMAIN out.run.all_probabilities[i - 1] # {}
         THEN CandidatesBefore(i - 1) \cap DOMAIN out.run.all_probabilities[i - 1]
         ELSE CandidatesBefore(i - 1)

\* some n-gram of order i of the text has a prefix with a non-zero frequency for the language
HasNonZeroLookUp(language, i) ==
    \E ngram \in TestDataNgrams(out.run.cleaned_up_text, i) :
        PositivePrefixes(language, ngram) # {}

\* C22: a candidate is in the map of an order if and only if at least one n-gram of the
\* order had a non-zero frequency look-up for it, at its own or a backed-off order, for
\* all frequencies in (0.0, 1.0]; the candidates are then narrowed to the keys of the
\* map only when the map is not empty.
InMapIffNonZeroLookUp ==
    Scored =>
        /\ \A i \in 1..Len(out.run.all_probabilities) :
            \A language \in CandidatesBefore(i) :
                language \in DOMAIN out.run.all_probabilities[i]
                    <=> HasNonZeroLookUp(language, i)
        /\ out.run.candidates = CandidatesBefore(Len(out.run.all_probabilities) + 1)

\* the sum of the values of a language over the maps of all orders, a missing entry
\* counting as 0
SumOverOrders(language) ==
    SumOver([i \in 1..Len(out.run.all_probabilities) |->
                IF language \in DOMAIN out.run.all_probabilities[i]
                THEN out.run.all_probabilities[i][language] ELSE 0],
            1..Len(out.run.all_probabilities))

\* the number of distinct unigrams of the text with a positive frequency for the language
UnigramHits(language) ==
    Cardinality({unigram \in TestDataNgrams(out.run.cleaned_up_text, 1) :
        PositivePrefixes(language, unigram) # {}})

\* C23: the final score of a remaining candidate is the sum of its values over the maps
\* of all orders, divided by its unigram hit count when it has one, the hit count being
\* the number of distinct unigrams of the text with a positive frequency for the
\* language; a candidate whose final score is zero is omitted, and no other language has
\* a final score.
FinalScoreIsSumOverHits ==
    Scored =>
        /\ DOMAIN out.run.summed_up_probabilities \subseteq out.run.candidates
        /\ \A language \in out.run.candidates :
            /\ IF UnigramHits(language) > 0
               THEN /\ language \in DOMAIN out.run.unigram_counts
                    /\ out.run.unigram_counts[language] = UnigramHits(language)
               ELSE language \notin DOMAIN out.run.unigram_counts
            /\ IF SumOverOrders(language) = 0
               THEN language \notin DOMAIN out.run.summed_up_probabilities
               ELSE /\ language \in DOMAIN out.run.summed_up_probabilities
                    /\ out.run.summed_up_probabilities[language].num
                            * (IF UnigramHits(language) > 0 THEN UnigramHits(language) ELSE 1)
                        = SumOverOrders(language)
                            * out.run.summed_up_probabilities[language].den

\* C23 happens: English has two unigram hits in "ab" and a sum of -3 over the two
\* orders, and ends with the score -3/2
SumDividedByTwoHits ==
    /\ Scored
    /\ "English" \in out.run.candidates
    /\ UnigramHits("English") = 2
    /\ SumOverOrders("English") = -3
    /\ out.run.summed_up_probabilities["English"] = [num |-> -3, den |-> 2]

\* C25: every language of the list compute_language_confidence_values returns, and every
\* language detect_language_of returns, is one of the languages the detector is
\* configured with.
ResultWithinConfigured ==
    Detected =>
        /\ \A i \in 1..Len(out.confidence_values) :
            out.confidence_values[i].language \in detector.languages
        /\ out.language # NoLanguage => out.language \in detector.languages

\* the candidates an order starts with
NarrowedBefore(k) ==
    IF k = 1 THEN out.run.filtered_languages ELSE out.run.narrowed_languages[k - 1]

\* C26: during scoring the candidate set only shrinks from one order to the next,
\* narrowing never turns a non-empty set into an empty one, and every language of the
\* result is in the set left after the last order, so a language dropped at some order
\* is absent from the result even if it scored at a lower order.
CandidatesOnlyShrink ==
    Scored =>
        /\ \A k \in 1..Len(out.run.narrowed_languages) :
            /\ out.run.narrowed_languages[k] \subseteq NarrowedBefore(k)
            /\ NarrowedBefore(k) # {} => out.run.narrowed_languages[k] # {}
            /\ \A language \in NarrowedBefore(k) \ out.run.narrowed_languages[k] :
                \A i \in 1..Len(out.confidence_values) :
                    out.confidence_values[i].language # language
        /\ \A i \in 1..Len(out.confidence_values) :
            out.confidence_values[i].language
                \in NarrowedBefore(Len(out.run.narrowed_languages) + 1)

\* C26 happens: German scored at order 1, was dropped at order 2, where English alone
\* scored, and the result holds English alone
ScoredThenDropped ==
    /\ Scored
    /\ Len(out.run.narrowed_languages) = 2
    /\ "German" \in DOMAIN out.run.all_probabilities[1]
    /\ out.run.narrowed_languages[1] = {"English", "German"}
    /\ out.run.narrowed_languages[2] = {"English"}
    /\ Len(out.confidence_values) = 1
    /\ out.confidence_values[1].language = "English"

\* a call that stopped early: no model store was consulted and nothing aborted
StoppedEarly ==
    /\ out.run.looked_up = {}
    /\ ~out.run.panicked
    /\ out.run.all_probabilities = <<>>

\* C29: the steps of compute_language_confidence_values run in the order letter check,
\* rules, filter, statistics, and a call stops before the statistics, with no model
\* store consulted and no abort whatever stores the detector has, when the text has no
\* letter, when the rules name a language, or when the filter leaves one language.
StopsBeforeModelStores ==
    Detected =>
        /\ out.run.rules_applied => HasLetter(clean_up_input_text(input))
        /\ out.run.filter_applied =>
                out.run.rules_applied /\ out.run.language_detected_by_rules = NoLanguage
        /\ out.run.looked_up # {} =>
                out.run.filter_applied /\ Cardinality(out.run.filtered_languages) # 1
        /\ IF ~HasLetter(clean_up_input_text(input))
           THEN StoppedEarly
           ELSE LET words == split_text_into_words(clean_up_input_text(input))
                IN IF detect_language_with_rules(detector, words) # NoLanguage
                   THEN StoppedEarly /\ ~out.run.filter_applied
                   ELSE Cardinality(filter_languages_by_rules(detector, words,
                                        out.run.most_frequent_alphabet)) = 1
                            => StoppedEarly

\* C29 happens: the detector whose five stores are empty returns the one language the
\* filter left
EmptyStoresNotConsulted ==
    /\ Detected
    /\ detector = detector_for_all_languages
    /\ out.run.returned_at = "filter"
    /\ out.run.language_detected_by_rules = NoLanguage
    /\ Cardinality(out.run.filtered_languages) = 1
    /\ Len(out.confidence_values) = 1

(***************************************************************************)
(* Properties of the lazily built character sets, under SpecLazy.          *)
(***************************************************************************)
\* C24: under every interleaving of the threads the character set of an alphabet is
\* initialised at most once; every caller of Alphabet::matches gets the same, fully
\* built set; and a published set never changes.
CharSetInitialisedOnce ==
    /\ [](\A alphabet \in Alphabets : char_sets[alphabet].initialisations <= 1)
    /\ [](\A t \in DOMAIN callers :
            callers[t].pc \in {"is_char_match", "returned"} =>
                callers[t].observed = AlphabetChars(callers[t].alphabet))
    /\ [][\A alphabet \in Alphabets :
            char_sets[alphabet].state = "complete" =>
                char_sets'[alphabet] = char_sets[alphabet]]_vars

\* C24 happens: both threads asked about Latin, one of them built the set, which was
\* initialised once, and both got the whole set
BothCallersGotLatin ==
    /\ \A t \in DOMAIN callers :
        /\ callers[t].pc = "returned"
        /\ callers[t].alphabet = "Latin"
        /\ callers[t].observed = AlphabetChars("Latin")
    /\ \E t \in DOMAIN callers : callers[t].inserted = Len(ScriptTable("Latin"))
    /\ DOMAIN callers = Callers
    /\ char_sets["Latin"].initialisations = 1

(***************************************************************************)
(* Properties of two detectors that differ in the threshold, under         *)
(* SpecThreshold.                                                          *)
(***************************************************************************)
\* C28: detect_language_of is monotone in minimum_relative_distance: for two detectors
\* that differ in the threshold only, d1 <= d2, and one text, None from the detector
\* with d1 means None from the detector with d2, and Some(L) from the detector with d2
\* means the same Some(L) from the detector with d1.
MonotoneInMinimumRelativeDistance ==
    op = "detect_language_of_with_distance" =>
        /\ out.first.language = NoLanguage => out.second.language = NoLanguage
        /\ out.second.language # NoLanguage => out.first.language = out.second.language

====
